---- MODULE Spec2Model ----
(***************************************************************************)
(* A model of txaws.route53: the record model (model.py) and the Route53   *)
(* client facade (client.py).                                              *)
(*                                                                         *)
(* Representation.  A text is a sequence of atoms; an atom is a decimal    *)
(* digit, the blank " ", or an indivisible run of other characters (a      *)
(* label such as "ns1.example").  The text of an XML child element is an   *)
(* option: <<>> when the element is absent, <<t>> when it is present with  *)
(* text t.  A Python value that may be None is a tagged record.  The       *)
(* result of running Python code is an outcome: Ok(v) or Raise(e).         *)
(***************************************************************************)
EXTENDS Integers, Sequences, FiniteSets, TLC

\* ---------------------------------------------------------------- bounds
\* total size (rrsets + records) of a ListResourceRecordSets response
MaxRRSetDocSize == 4
\* total size (zones + Id atoms) of a hosted-zone response
MaxZoneDocSize == 5
\* total size (changes + records) of a change batch
MaxBatchSize == 3
\* largest maxitems filter the caller passes
MaxItems == 11
\* largest integer field of an SOA the caller builds
MaxSoaInt == 11

\* ------------------------------------------------------- python values
PyNone == [t |-> "None"]
PyStr(s) == [t |-> "str", s |-> s]
PyInt(n) == [t |-> "int", n |-> n]

\* Python truth value of None, a str or an int (the `if x:` test)
Truthy(v) ==
    CASE v.t = "None" -> FALSE
      [] v.t = "str" -> Len(v.s) > 0
      [] v.t = "int" -> v.n # 0

Ok(v) == [tag |-> "ok", val |-> v]
Raise(e) == [tag |-> "fail", err |-> e]
IsOk(o) == o.tag = "ok"

\* ---------------------------------------------------------------- texts
Digits == <<"0", "1", "2", "3", "4", "5", "6", "7", "8", "9">>
IsDigit(a) == \E i \in 1..Len(Digits) : Digits[i] = a
DigitValue(a) == (CHOOSE i \in 1..Len(Digits) : Digits[i] = a) - 1

\* unicode(n) / str(n) for a non-negative int: its decimal digits
RECURSIVE IntToText(_)
IntToText(n) ==
    IF n < 10 THEN <<Digits[n + 1]>>
    ELSE IntToText(n \div 10) \o <<Digits[(n % 10) + 1]>>

\* int(text): the value of a non-empty run of digits, ValueError otherwise
RECURSIVE DigitsValue(_)
DigitsValue(t) ==
    IF Len(t) = 0 THEN 0
    ELSE 10 * DigitsValue(SubSeq(t, 1, Len(t) - 1)) + DigitValue(t[Len(t)])

int(t) ==
    IF Len(t) > 0 /\ \A i \in 1..Len(t) : IsDigit(t[i])
    THEN Ok(DigitsValue(t))
    ELSE Raise("ValueError")

\* text.split(): the maximal runs of non-blank atoms, in order
RECURSIVE split(_)
split(t) ==
    IF Len(t) = 0 THEN <<>>
    ELSE IF t[1] = " " THEN split(Tail(t))
    ELSE LET rest == split(Tail(t))
         IN  IF Len(t) > 1 /\ t[2] # " "
             THEN <<(<<t[1]>> \o rest[1])>> \o Tail(rest)
             ELSE <<(<<t[1]>>)>> \o rest

\* separator.join(parts)
RECURSIVE join(_, _)
join(sep, parts) ==
    IF Len(parts) = 0 THEN <<>>
    ELSE IF Len(parts) = 1 THEN parts[1]
    ELSE parts[1] \o sep \o join(sep, Tail(parts))

StartsWith(t, p) == Len(t) >= Len(p) /\ SubSeq(t, 1, Len(p)) = p

\* text.replace(old, new), old non-empty: every non-overlapping occurrence,
\* scanning left to right
RECURSIVE replace(_, _, _)
replace(t, old, new) ==
    IF Len(t) = 0 THEN <<>>
    ELSE IF StartsWith(t, old)
         THEN new \o replace(SubSeq(t, Len(old) + 1, Len(t)), old, new)
         ELSE <<t[1]>> \o replace(Tail(t), old, new)

\* text.encode("idna"): an ASCII label is unchanged, a non-ASCII label
\* becomes its xn-- form
UnicodeLabel == "u-umlaut.example"
IdnaAtom(a) == IF a = UnicodeLabel THEN "xn--tda.example" ELSE a
idna(t) == [i \in 1..Len(t) |-> IdnaAtom(t[i])]

\* ------------------------------------------------------------- model.py
\* _not_empty, the validator of Name.text
not_empty(value) == IF 0 = Len(value) THEN Raise("ValueError") ELSE Ok(value)

\* Name(text)
Name(text) ==
    LET v == not_empty(text)
    IN  IF IsOk(v) THEN Ok([text |-> text]) ELSE v

\* Name.__str__, and unicode(name), which falls back on it
Name_str(name) == idna(name.text)

\* e.find("Value").text on a ResourceRecord element
FindText(opt) == IF Len(opt) = 0 THEN Raise("AttributeError") ELSE Ok(opt[1])

NS_from_element(e) ==
    LET t == FindText(e.Value)
    IN  IF ~IsOk(t) THEN t
        ELSE LET n == Name(t.val)
             IN  IF IsOk(n) THEN Ok([cls |-> "NS", nameserver |-> n.val]) ELSE n

NS_to_string(r) == Ok(Name_str(r.nameserver))

CNAME_from_element(e) ==
    LET t == FindText(e.Value)
    IN  IF ~IsOk(t) THEN t
        ELSE LET n == Name(t.val)
             IN  IF IsOk(n) THEN Ok([cls |-> "CNAME", canonical_name |-> n.val]) ELSE n

CNAME_to_string(r) == Ok(Name_str(r.canonical_name))

SOAFields == <<"mname", "rname", "serial", "refresh", "retry", "expire", "minimum">>

\* SOA(mname=..., ...) from seven tokens: the two names, then the five ints
SOA_from_tokens(tk) ==
    LET m == Name(tk[1])
        r == Name(tk[2])
        bad == {i \in 3..7 : ~IsOk(int(tk[i]))}
    IN  IF ~IsOk(m) THEN m
        ELSE IF ~IsOk(r) THEN r
        ELSE IF bad # {} THEN Raise("ValueError")
        ELSE Ok([cls |-> "SOA", mname |-> m.val, rname |-> r.val,
                 serial |-> int(tk[3]).val, refresh |-> int(tk[4]).val,
                 retry |-> int(tk[5]).val, expire |-> int(tk[6]).val,
                 minimum |-> int(tk[7]).val])

SOA_from_element(e) ==
    LET t == FindText(e.Value)
    IN  IF ~IsOk(t) THEN t
        ELSE LET tk == split(t.val)
             IN  IF Len(tk) # Len(SOAFields) THEN Raise("ValueError")
                 ELSE SOA_from_tokens(tk)

\* template.format(*args, **kwargs) for a template of named fields: each
\* field is looked up among the keyword arguments
format(fields, args, kwargs) ==
    IF \E i \in 1..Len(fields) : fields[i] \notin DOMAIN kwargs
    THEN Raise("KeyError")
    ELSE Ok(join(<<" ">>, [i \in 1..Len(fields) |-> kwargs[fields[i]]]))

\* vars(self) of an SOA, each field as format() would render it
SOA_vars(r) ==
    [mname |-> Name_str(r.mname), rname |-> Name_str(r.rname),
     serial |-> IntToText(r.serial), refresh |-> IntToText(r.refresh),
     retry |-> IntToText(r.retry), expire |-> IntToText(r.expire),
     minimum |-> IntToText(r.minimum)]

NoKwargs == [f \in {} |-> <<>>]

\* SOA.to_string: vars(self) is passed as the one positional argument
SOA_to_string(r) == format(SOAFields, <<SOA_vars(r)>>, NoKwargs)

\* rr.to_string() for a record of any of the three classes
to_string(rr) ==
    CASE rr.cls = "NS" -> NS_to_string(rr)
      [] rr.cls = "CNAME" -> CNAME_to_string(rr)
      [] rr.cls = "SOA" -> SOA_to_string(rr)

\* ------------------------------------------------------------ client.py
OK == 200
CREATED == 201

NS_URI == "https://route53.amazonaws.com/doc/2013-04-01/"
OTHER_ENDPOINT == [scheme |-> "https", host |-> "route53.amazonaws.com", port |-> 443]
API_VERSION == "2013-04-01"

\* RECORD_TYPES: the DNS type tag of an rrset -> the class that decodes it
RECORD_TYPES == [SOA |-> "SOA", NS |-> "NS", CNAME |-> "CNAME"]

\* cls.from_element(element)
from_element(cls, e) ==
    CASE cls = "NS" -> NS_from_element(e)
      [] cls = "CNAME" -> CNAME_from_element(e)
      [] cls = "SOA" -> SOA_from_element(e)

HostedZonePrefix == <<"/hostedzone/">>

\* as hostedzone_from_element, the Id kept as it arrived
hostedzone_from_element_raw_id(zone) ==
    IF Len(zone) = 0 THEN Raise("AttributeError")
    ELSE LET z == zone[1]
             name == FindText(z.Name)
             id == FindText(z.Id)
             count == FindText(z.ResourceRecordSetCount)
             ref == FindText(z.CallerReference)
         IN  IF ~IsOk(name) THEN name
             ELSE IF ~IsOk(id) THEN id
             ELSE IF ~IsOk(count) THEN count
             ELSE IF ~IsOk(int(count.val)) THEN int(count.val)
             ELSE IF ~IsOk(ref) THEN ref
             ELSE Ok([name |-> name.val, identifier |-> id.val,
                      rrset_count |-> int(count.val).val, reference |-> ref.val])

\* hostedzone_from_element(zone); zone is an option, absent when
\* document.find("./HostedZone") found nothing
hostedzone_from_element(zone) ==
    IF Len(zone) = 0 THEN Raise("AttributeError")
    ELSE LET z == zone[1]
             name == FindText(z.Name)
             id == FindText(z.Id)
             count == FindText(z.ResourceRecordSetCount)
             ref == FindText(z.CallerReference)
         IN  IF ~IsOk(name) THEN name
             ELSE IF ~IsOk(id) THEN id
             ELSE IF ~IsOk(count) THEN count
             ELSE IF ~IsOk(int(count.val)) THEN int(count.val)
             ELSE IF ~IsOk(ref) THEN ref
             ELSE Ok([name |-> name.val,
                      identifier |-> replace(id.val, HostedZonePrefix, <<>>),
                      rrset_count |-> int(count.val).val,
                      reference |-> ref.val])

\* _handle_create_hosted_zone_response
handle_create_hosted_zone_response(document) ==
    hostedzone_from_element(document.HostedZone)

\* _handle_list_hosted_zones_response: the loop over the HostedZone elements
RECURSIVE handle_list_hosted_zones_response_loop(_, _)
handle_list_hosted_zones_response_loop(zones, result) ==
    IF Len(zones) = 0 THEN Ok(result)
    ELSE LET z == hostedzone_from_element(<<zones[1]>>)
         IN  IF ~IsOk(z) THEN z
             ELSE handle_list_hosted_zones_response_loop(
                      Tail(zones), Append(result, z.val))

handle_list_hosted_zones_response(document) ==
    handle_list_hosted_zones_response_loop(document.HostedZones, <<>>)

\* the set comprehension {RECORD_TYPES[type].from_element(element) for
\* element in records}: the lookup is evaluated once per element
RECURSIVE decode_records(_, _, _)
decode_records(type, records, acc) ==
    IF Len(records) = 0 THEN Ok(acc)
    ELSE IF type \notin DOMAIN RECORD_TYPES THEN Raise("KeyError")
    ELSE LET r == from_element(RECORD_TYPES[type], records[1])
         IN  IF ~IsOk(r) THEN r
             ELSE decode_records(type, Tail(records), acc \cup {r.val})

\* as setdefault_update, written result[name] = new
setdefault_update_overwriting(result, name, new) ==
    {e \in result : e.key # name} \cup {[key |-> name, val |-> new]}

\* result.setdefault(name, set()).update(new); a mapping is a set of
\* entries [key, val] with distinct keys
setdefault_update(result, name, new) ==
    IF \E e \in result : e.key = name
    THEN {IF e.key = name THEN [key |-> name, val |-> e.val \cup new] ELSE e
          : e \in result}
    ELSE result \cup {[key |-> name, val |-> new]}

\* as the loop of _handle_list_resource_record_sets_response, an rrset
\* that fails to decode ending the loop with what was decoded so far
RECURSIVE handle_list_resource_record_sets_response_loop_partial(_, _)
handle_list_resource_record_sets_response_loop_partial(rrsets, result) ==
    IF Len(rrsets) = 0 THEN Ok(result)
    ELSE LET rrset == rrsets[1]
             nameText == FindText(rrset.Name)
             name == Name(nameText.val)
             type == FindText(rrset.Type)
             new == decode_records(type.val, rrset.ResourceRecords, {})
         IN  IF ~IsOk(nameText) \/ ~IsOk(name) \/ ~IsOk(type) \/ ~IsOk(new)
             THEN Ok(result)
             ELSE handle_list_resource_record_sets_response_loop_partial(
                      Tail(rrsets), setdefault_update(result, name.val, new.val))

\* _handle_list_resource_record_sets_response: the loop over the rrsets
RECURSIVE handle_list_resource_record_sets_response_loop(_, _)
handle_list_resource_record_sets_response_loop(rrsets, result) ==
    IF Len(rrsets) = 0 THEN Ok(result)
    ELSE LET rrset == rrsets[1]
             nameText == FindText(rrset.Name)
             name == Name(nameText.val)
             type == FindText(rrset.Type)
             new == decode_records(type.val, rrset.ResourceRecords, {})
         IN  IF ~IsOk(nameText) THEN nameText
             ELSE IF ~IsOk(name) THEN name
             ELSE IF ~IsOk(type) THEN type
             ELSE IF ~IsOk(new) THEN new
             ELSE handle_list_resource_record_sets_response_loop(
                      Tail(rrsets), setdefault_update(result, name.val, new.val))

handle_list_resource_record_sets_response(document) ==
    handle_list_resource_record_sets_response_loop(document.ResourceRecordSets, {})

\* _Op.extract_result's default, lambda document: None
extract_nothing(document) == Ok(PyNone)

\* op.extract_result(document), by the name of the handler the op carries
extract_result(handler, document) ==
    CASE handler = "_handle_create_hosted_zone_response" ->
             handle_create_hosted_zone_response(document)
      [] handler = "_handle_list_hosted_zones_response" ->
             handle_list_hosted_zones_response(document)
      [] handler = "_handle_list_resource_record_sets_response" ->
             handle_list_resource_record_sets_response(document)
      [] handler = "lambda" -> extract_nothing(document)

\* _Op(service, method, path, query=[], body=b"", ok_status=(OK,),
\*     extract_result=lambda document: None); a body is an option: <<>> is b""
Op(method, path, query, body, ok_status, handler) ==
    [service |-> "route53", method |-> method, path |-> path, query |-> query,
     body |-> body, ok_status |-> ok_status, extract_result |-> handler]

NoQueryArgs == <<>>
NoBody == <<>>
DefaultOkStatus == {OK}
NoOp == [service |-> "none"]

\* ------------------------------------------------- change-set factories
ChangeRRSet(action, name, type, rrset) ==
    [t |-> "_ChangeRRSet", action |-> action, name |-> name, type |-> type,
     rrset |-> rrset]

create_rrset(name, type, rrset) == ChangeRRSet("CREATE", name, type, rrset)
delete_rrset(name, type, rrset) == ChangeRRSet("DELETE", name, type, rrset)
\* the bodies of these five are `pass`
upsert_rrset(name, type, rrset) == PyNone
create_alias_rrset(name, type, alias) == PyNone
create_failover_rrset(name, type, failover) == PyNone
create_geolocation_rrset(name, type, geolocation) == PyNone
create_latency_based_rrset(name, type, latency) == PyNone

Placeholders ==
    {"upsert_rrset", "create_alias_rrset", "create_failover_rrset",
     "create_geolocation_rrset", "create_latency_based_rrset"}
Factories == {"create_rrset", "delete_rrset"} \cup Placeholders

CallFactory(f, name, type, arg) ==
    CASE f = "create_rrset" -> create_rrset(name, type, arg)
      [] f = "delete_rrset" -> delete_rrset(name, type, arg)
      [] f = "upsert_rrset" -> upsert_rrset(name, type, arg)
      [] f = "create_alias_rrset" -> create_alias_rrset(name, type, arg)
      [] f = "create_failover_rrset" -> create_failover_rrset(name, type, arg)
      [] f = "create_geolocation_rrset" -> create_geolocation_rrset(name, type, arg)
      [] f = "create_latency_based_rrset" -> create_latency_based_rrset(name, type, arg)

\* list(tags.ResourceRecord(tags.Value(rr.to_string())) for rr in self.rrset)
RECURSIVE resource_records(_, _)
resource_records(rrset, acc) ==
    IF Len(rrset) = 0 THEN Ok(acc)
    ELSE LET v == to_string(rrset[1])
         IN  IF ~IsOk(v) THEN v
             ELSE resource_records(Tail(rrset), Append(acc, [Value |-> v.val]))

TTL == 60 * 60 * 24

\* _ChangeRRSet.to_element; on None the attribute lookup fails
to_element(change) ==
    IF change.t = "None" THEN Raise("AttributeError")
    ELSE LET rrs == resource_records(change.rrset, <<>>)
         IN  IF ~IsOk(rrs) THEN rrs
             ELSE Ok([tag |-> "Change",
                      Action |-> change.action,
                      Name |-> Name_str(change.name),
                      Type |-> change.type,
                      TTL |-> IntToText(TTL),
                      ResourceRecords |-> rrs.val])

\* list(change.to_element() for change in changes)
RECURSIVE change_elements(_, _)
change_elements(changes, acc) ==
    IF Len(changes) = 0 THEN Ok(acc)
    ELSE LET e == to_element(changes[1])
         IN  IF ~IsOk(e) THEN e
             ELSE change_elements(Tail(changes), Append(acc, e.val))

\* ------------------------------------------------------ request assembly
\* to_xml(body): the serialized bytes of a tag tree
to_xml(body) == [bytes_of |-> body]

\* sha256(op.body).hexdigest()
sha256(body) == [sha256_of |-> body]

\* _route53_op(body=None, **kw); body is an option, <<>> for None
route53_op(body, method, path, query, ok_status, handler) ==
    LET op == Op(method, path, query, NoBody, ok_status, handler)
    IN  IF Len(body) = 0 THEN op
        ELSE [op EXCEPT !.body = <<to_xml(body[1])>>]

\* _Route53Client._details
details(op) ==
    [region |-> "us-east-1", service |-> op.service, method |-> op.method,
     url_context |-> [scheme |-> OTHER_ENDPOINT.scheme,
                      host |-> OTHER_ENDPOINT.host,
                      port |-> OTHER_ENDPOINT.port,
                      path |-> op.path, query |-> op.query],
     body_producer |-> op.body,
     content_sha256 |-> sha256(op.body)]

\* as list_resource_record_sets_args, each test written `is not None`
list_resource_record_sets_args_not_none(identifier, maxitems, name, type) ==
    (IF identifier.t # "None" THEN <<(<<"identifier", identifier.s>>)>> ELSE <<>>)
    \o (IF maxitems.t # "None" THEN <<(<<"maxitems", IntToText(maxitems.n)>>)>> ELSE <<>>)
    \o (IF name.t # "None" THEN <<(<<"name", name.s>>)>> ELSE <<>>)
    \o (IF type.t # "None" THEN <<(<<"type", type.s>>)>> ELSE <<>>)

\* the query arguments list_resource_record_sets builds
list_resource_record_sets_args(identifier, maxitems, name, type) ==
    (IF Truthy(identifier) THEN <<(<<"identifier", identifier.s>>)>> ELSE <<>>)
    \o (IF Truthy(maxitems) THEN <<(<<"maxitems", IntToText(maxitems.n)>>)>> ELSE <<>>)
    \o (IF Truthy(name) THEN <<(<<"name", name.s>>)>> ELSE <<>>)
    \o (IF Truthy(type) THEN <<(<<"type", type.s>>)>> ELSE <<>>)

\* the descriptors the five facade operations build
create_hosted_zone_op(caller_reference, name) ==
    route53_op(<<[tag |-> "CreateHostedZoneRequest", xmlns |-> NS_URI,
                  CallerReference |-> caller_reference, Name |-> name]>>,
               "POST", <<API_VERSION, "hostedzone">>, NoQueryArgs,
               {CREATED}, "_handle_create_hosted_zone_response")

list_hosted_zones_op ==
    route53_op(<<>>, "GET", <<API_VERSION, "hostedzone">>, NoQueryArgs,
               DefaultOkStatus, "_handle_list_hosted_zones_response")

change_resource_record_sets_op(zone_id, elements) ==
    route53_op(<<[tag |-> "ChangeResourceRecordSetsRequest", xmlns |-> NS_URI,
                  ChangeBatch |-> [Changes |-> elements]]>>,
               "POST", <<API_VERSION, "hostedzone", zone_id, "rrset">>,
               NoQueryArgs, DefaultOkStatus, "lambda")

list_resource_record_sets_op(zone_id, identifier, maxitems, name, type) ==
    route53_op(<<>>, "GET", <<API_VERSION, "hostedzone", zone_id, "rrset">>,
               list_resource_record_sets_args(identifier, maxitems, name, type),
               DefaultOkStatus, "_handle_list_resource_record_sets_response")

delete_hosted_zone_op(zone_id) ==
    route53_op(<<>>, "DELETE", <<API_VERSION, "hostedzone", zone_id>>,
               NoQueryArgs, DefaultOkStatus, "lambda")

\* ------------------------------------------------- the response pipeline
\* query(...).submit(agent): what the Deferred fires with for a response
query_submit(resp, ok_status) ==
    IF resp.kind = "failure" THEN Raise("TransportError")
    ELSE IF resp.status \in ok_status
         THEN Ok([t |-> "tuple", items |-> <<resp.status, resp.body>>])
         ELSE Raise("TwistedWebError")

\* error_wrapper(error, errorClass)
error_wrapper(error, errorClass) ==
    IF error.err = "TwistedWebError" THEN Raise(errorClass) ELSE Raise(error.err)

\* route53_error_wrapper: calls error_wrapper and returns nothing
route53_error_wrapper(error) ==
    LET r == error_wrapper(error, "Route53Error")
    IN  IF IsOk(r) THEN Ok(PyNone) ELSE r

\* operator.itemgetter(1)
itemgetter1(v) == IF v.t = "tuple" THEN Ok(v.items[2]) ELSE Raise("TypeError")

\* txaws.util.XML: parse the response bytes
XML(body) == IF body.kind = "xml" THEN Ok(body.doc) ELSE Raise("ParseError")

Errback(fn) == [kind |-> "errback", fn |-> fn]
Callback(fn) == [kind |-> "callback", fn |-> fn]

\* as submit_chain, with the addErrback line left out
submit_chain_without_errback == <<Callback("itemgetter(1)"), Callback("XML")>>

\* the callbacks _submit adds to the Deferred of q.submit
submit_chain ==
    <<Errback("route53_error_wrapper"), Callback("itemgetter(1)"), Callback("XML")>>

\* _op appends op.extract_result
op_chain == Append(submit_chain, Callback("extract_result"))

\* one link of the chain applied to the Deferred's current result
apply_link(fn, cur, handler) ==
    CASE fn = "route53_error_wrapper" -> route53_error_wrapper(cur)
      [] fn = "itemgetter(1)" -> itemgetter1(cur.val)
      [] fn = "XML" -> XML(cur.val)
      [] fn = "extract_result" -> extract_result(handler, cur.val)

\* Deferred: a callback runs on a result, an errback on a failure, and what
\* it returns or raises becomes the current result
RECURSIVE run_callbacks(_, _, _, _)
run_callbacks(chain, cur, trace, handler) ==
    IF Len(chain) = 0 THEN [outcome |-> cur, ran |-> trace]
    ELSE IF (chain[1].kind = "errback") = (~IsOk(cur))
         THEN run_callbacks(Tail(chain), apply_link(chain[1].fn, cur, handler),
                            Append(trace, chain[1].fn), handler)
         ELSE run_callbacks(Tail(chain), cur, trace, handler)

\* ------------------------------------------------------- input universes
ZoneIds == {"Z1", "Z2"}
FilterTexts == {<<>>, <<"x">>}
OptionalTexts == {PyNone} \cup {PyStr(s) : s \in FilterTexts}
OptionalCounts == {PyNone} \cup {PyInt(n) : n \in 0..MaxItems}

NameA == [text |-> <<"a.example">>]
NameU == [text |-> <<UnicodeLabel>>]
NS1 == [cls |-> "NS", nameserver |-> [text |-> <<"ns1.example">>]]
CNAME2 == [cls |-> "CNAME", canonical_name |-> [text |-> <<UnicodeLabel>>]]
SOA1 ==
    [cls |-> "SOA", mname |-> [text |-> <<"ns1.example">>],
     rname |-> [text |-> <<"admin.example">>],
     serial |-> 12, refresh |-> 3, retry |-> 4, expire |-> 5, minimum |-> 6]
ChangeRecords == {NS1, CNAME2, SOA1}
ChangeTypes == {"NS", "SOA"}

\* the factory calls whose record collection holds k records
FactoryCallsWith(k) ==
    {[factory |-> f, result |-> CallFactory(f, n, t, rr)] :
        f \in Factories, n \in {NameA, NameU}, t \in ChangeTypes,
        rr \in [1..k -> ChangeRecords]}

\* the size of a batch: its calls plus the records they were given
RECURSIVE BatchSize(_)
BatchSize(b) ==
    IF Len(b) = 0 THEN 0
    ELSE 1 + (IF b[1].result.t = "None" THEN 0 ELSE Len(b[1].result.rrset))
           + BatchSize(Tail(b))

\* response texts
SoaText ==
    <<"ns1.example", " ", "admin.example", " ", "1", "2", " ", "3", " ", "4",
      " ", "5", " ", "6">>
BadSoaText ==
    <<"ns1.example", " ", "admin.example", " ", "1", "x", " ", "3", " ", "4",
      " ", "5", " ", "6">>
\* a ResourceRecord element: its Value child absent, or present with a text
RecordElements ==
    {[Value |-> v] : v \in {<<>>, <<(<<"ns1.example">>)>>, <<(<<"ns2.example">>)>>,
                            <<SoaText>>, <<BadSoaText>>}}

\* the Name and Type children of a ResourceRecordSet element
RRSetHeads ==
    {[Name |-> <<(<<"a.example">>)>>, Type |-> <<t>>] :
        t \in {"SOA", "NS", "CNAME", "MX"}}
    \cup {[Name |-> <<(<<"b.example">>)>>, Type |-> <<t>>] : t \in {"NS", "CNAME"}}
    \cup {[Name |-> <<>>, Type |-> <<"NS">>],
          [Name |-> <<(<<>>)>>, Type |-> <<"NS">>],
          [Name |-> <<(<<"a.example">>)>>, Type |-> <<>>]}

RRSetsWith(k) ==
    {[Name |-> h.Name, Type |-> h.Type, ResourceRecords |-> rs] :
        h \in RRSetHeads, rs \in [1..k -> RecordElements]}

\* the size of an rrset sequence: its rrsets plus their records
RECURSIVE RRSetsSize(_)
RRSetsSize(rs) ==
    IF Len(rs) = 0 THEN 0
    ELSE 1 + Len(rs[1].ResourceRecords) + RRSetsSize(Tail(rs))

IdAtoms == {"/hostedzone/", "Z1"}
\* the HostedZone elements whose Id text holds k atoms (or, for k = 0,
\* whose Id child is absent)
ZonesWith(k) ==
    {[Name |-> <<(<<"example.com">>)>>, Id |-> <<id>>,
      ResourceRecordSetCount |-> <<c>>, CallerReference |-> <<(<<"ref1">>)>>] :
        id \in [1..k -> IdAtoms], c \in {<<"7">>, <<"x">>}}
    \cup (IF k = 0
          THEN {[Name |-> <<(<<"example.com">>)>>, Id |-> <<>>,
                 ResourceRecordSetCount |-> <<(<<"7">>)>>,
                 CallerReference |-> <<(<<"ref1">>)>>]}
          ELSE {})

\* the size of a zone sequence: its zones plus the atoms of their Ids
RECURSIVE ZonesSize(_)
ZonesSize(zs) ==
    IF Len(zs) = 0 THEN 0
    ELSE 1 + (IF Len(zs[1].Id) = 0 THEN 0 ELSE Len(zs[1].Id[1])) + ZonesSize(Tail(zs))

EmptyDoc == [HostedZone |-> <<>>, HostedZones |-> <<>>, ResourceRecordSets |-> <<>>]

\* a body no operation fails to decode, sent with the error statuses
SampleZone ==
    [Name |-> <<(<<"example.com">>)>>, Id |-> <<(<<"/hostedzone/", "Z1">>)>>,
     ResourceRecordSetCount |-> <<(<<"7">>)>>, CallerReference |-> <<(<<"ref1">>)>>]
SampleDoc ==
    [HostedZone |-> <<SampleZone>>, HostedZones |-> <<SampleZone>>,
     ResourceRecordSets |->
        <<[Name |-> <<(<<"a.example">>)>>, Type |-> <<"NS">>,
           ResourceRecords |-> <<[Value |-> <<(<<"ns1.example">>)>>]>>]>>]

\* the documents a partly received document may grow into when the next
\* element of the body arrives
Extensions(name, doc) ==
    CASE name = "create_hosted_zone" ->
             IF Len(doc.HostedZone) > 0 THEN {}
             ELSE {[doc EXCEPT !.HostedZone = <<z>>] :
                      z \in UNION {ZonesWith(k) : k \in 0..(MaxZoneDocSize - 1)}}
      [] name = "list_hosted_zones" ->
             {[doc EXCEPT !.HostedZones = Append(@, z)] :
                 z \in UNION {ZonesWith(k) :
                     k \in 0..(MaxZoneDocSize - ZonesSize(doc.HostedZones) - 1)}}
      [] name = "list_resource_record_sets" ->
             {[doc EXCEPT !.ResourceRecordSets = Append(@, r)] :
                 r \in UNION {RRSetsWith(k) :
                     k \in 0..(MaxRRSetDocSize - RRSetsSize(doc.ResourceRecordSets) - 1)}}
      [] OTHER -> IF doc = EmptyDoc THEN {SampleDoc} ELSE {}

Statuses == {OK, CREATED, 400, 500}

\* how what the transport hands back may begin: a failure, a success status
\* with a body that is no XML or with a document yet to arrive, or any other
\* status with its body
ResponseStarts(ok_status) ==
    {[kind |-> "failure"]}
    \cup {[kind |-> "http", status |-> s, body |-> [kind |-> "garbage"]] :
            s \in ok_status}
    \cup {[kind |-> "http", status |-> s, body |-> [kind |-> "xml", doc |-> EmptyDoc]] :
            s \in ok_status}
    \cup {[kind |-> "http", status |-> s, body |-> [kind |-> "xml", doc |-> SampleDoc]] :
            s \in Statuses \ ok_status}

\* ---------------------------------------------------------------- state
VARIABLES
    pc,         \* where the one call is: idle, prepared, assembled,
                \* submitted, inflight, receiving, done
    call,       \* the facade operation called and its arguments
    changes,    \* the caller's list of factory calls and their results
    op,         \* the _Op descriptor the call built
    sent,       \* the RequestDetails handed to the transport, until sent
    q,          \* the query in flight: its ok_status and the op's handler
    exchanges,  \* the number of q.submit calls
    response,   \* what the transport handed back
    ran,        \* the callbacks and errbacks that ran, in order
    outcome,    \* what the call's caller receives
    trip        \* an SOA, its to_string and the from_element of that

vars == <<pc, call, changes, op, sent, q, exchanges, response, ran, outcome, trip>>

NoCall == [name |-> "none"]
NoRequest == [service |-> "none"]
NoQuery == [handler |-> "none", ok_status |-> {}]
NoResponse == [kind |-> "none"]
NoOutcome == [tag |-> "none"]
NoTrip == [soa |-> PyNone]

Init ==
    /\ pc = "idle"
    /\ call = NoCall
    /\ changes = <<>>
    /\ op = NoOp
    /\ sent = NoRequest
    /\ q = NoQuery
    /\ exchanges = 0
    /\ response = NoResponse
    /\ ran = <<>>
    /\ outcome = NoOutcome
    /\ trip = NoTrip

\* a facade call that built its descriptor: d.addCallback(self._op) is next
Assembled(c, descriptor) ==
    /\ pc' = "assembled"
    /\ call' = c
    /\ op' = descriptor
    /\ UNCHANGED <<trip, changes, sent, q, exchanges, response, ran, outcome>>

create_hosted_zone ==
    /\ pc = "idle"
    /\ \E ref \in {<<"ref1">>}, name \in {<<"a.example">>, <<UnicodeLabel>>} :
          Assembled([name |-> "create_hosted_zone", caller_reference |-> ref,
                     zone_name |-> name],
                    create_hosted_zone_op(ref, name))

list_hosted_zones ==
    /\ pc = "idle"
    /\ Assembled([name |-> "list_hosted_zones"], list_hosted_zones_op)

delete_hosted_zone ==
    /\ pc = "idle"
    /\ \E z \in ZoneIds :
          Assembled([name |-> "delete_hosted_zone", zone_id |-> z],
                    delete_hosted_zone_op(z))

list_resource_record_sets ==
    /\ pc = "idle"
    /\ \E z \in ZoneIds, i \in OptionalTexts, m \in OptionalCounts,
          n \in OptionalTexts, t \in OptionalTexts :
          Assembled([name |-> "list_resource_record_sets", zone_id |-> z,
                     identifier |-> i, maxitems |-> m, rrname |-> n, type |-> t],
                    list_resource_record_sets_op(z, i, m, n, t))

\* the caller calls a factory and appends what it returns to its list of
\* changes
make_change ==
    /\ pc \in {"idle", "prepared"}
    /\ \E k \in 0..(MaxBatchSize - BatchSize(changes) - 1) :
          \E c \in FactoryCallsWith(k) : changes' = Append(changes, c)
    /\ pc' = "prepared"
    /\ UNCHANGED <<trip, call, op, sent, q, exchanges, response, ran, outcome>>

\* change_resource_record_sets: the body is built before _route53_op is
\* called, so what to_element raises leaves the call at once
change_resource_record_sets ==
    /\ pc \in {"idle", "prepared"}
    /\ \E z \in ZoneIds :
          LET c == [name |-> "change_resource_record_sets", zone_id |-> z]
              elements == change_elements(
                              [i \in 1..Len(changes) |-> changes[i].result], <<>>)
          IN  IF IsOk(elements)
              THEN Assembled(c, change_resource_record_sets_op(z, elements.val))
              ELSE /\ pc' = "done"
                   /\ call' = c
                   /\ outcome' = elements
                   /\ UNCHANGED <<trip, changes, op, sent, q, exchanges, response, ran>>

\* _op: _details, then _submit, which starts the one exchange
op_submit ==
    /\ pc = "assembled"
    /\ pc' = "submitted"
    /\ sent' = details(op)
    /\ q' = [handler |-> op.extract_result, ok_status |-> op.ok_status]
    /\ exchanges' = exchanges + 1
    /\ op' = NoOp
    /\ UNCHANGED <<trip, call, changes, response, ran, outcome>>

\* the transport writes the request out
transport_send ==
    /\ pc = "submitted"
    /\ pc' = "inflight"
    /\ sent' = NoRequest
    /\ call' = [name |-> call.name]
    /\ changes' = <<>>
    /\ UNCHANGED <<trip, op, q, exchanges, response, ran, outcome>>

\* the transport hands back a failure, or the status and the start of the
\* body of a response
transport_respond ==
    /\ pc = "inflight"
    /\ \E resp \in ResponseStarts(q.ok_status) : response' = resp
    /\ pc' = "receiving"
    /\ UNCHANGED <<trip, call, changes, op, sent, q, exchanges, ran, outcome>>

\* one more element of the body of a success response arrives
transport_receive ==
    /\ pc = "receiving"
    /\ response.kind = "http"
    /\ response.status \in q.ok_status
    /\ response.body.kind = "xml"
    /\ \E d \in Extensions(call.name, response.body.doc) :
          response' = [response EXCEPT !.body.doc = d]
    /\ UNCHANGED <<trip, pc, call, changes, op, sent, q, exchanges, ran, outcome>>

\* the Deferred of q.submit fires and its whole chain runs
deliver ==
    /\ pc = "receiving"
    /\ LET end == run_callbacks(op_chain, query_submit(response, q.ok_status),
                                <<>>, q.handler)
       IN  /\ outcome' = end.outcome
           /\ ran' = end.ran
    /\ pc' = "done"
    /\ UNCHANGED <<trip, call, changes, op, sent, q, exchanges, response>>

Next ==
    \/ create_hosted_zone
    \/ list_hosted_zones
    \/ delete_hosted_zone
    \/ list_resource_record_sets
    \/ make_change
    \/ change_resource_record_sets
    \/ op_submit
    \/ transport_send
    \/ transport_respond
    \/ transport_receive
    \/ deliver

Spec == Init /\ [][Next]_vars

\* ------------------------------------------- the SOA codec on its own
SoaNames == {[text |-> <<"ns1.example">>], [text |-> <<UnicodeLabel>>]}
SOAValues ==
    {[cls |-> "SOA", mname |-> m, rname |-> r, serial |-> s, refresh |-> f,
      retry |-> MaxSoaInt - f, expire |-> e, minimum |-> MaxSoaInt - e] :
        m \in SoaNames, r \in SoaNames, s \in 0..MaxSoaInt,
        f \in {0, MaxSoaInt}, e \in {0, MaxSoaInt}}

\* a caller encodes an SOA with to_string, wraps the text as the Value of a
\* ResourceRecord element and decodes that with SOA.from_element
soa_round_trip ==
    /\ trip = NoTrip
    /\ \E soa \in SOAValues :
          LET encoded == SOA_to_string(soa)
              decoded == IF IsOk(encoded)
                         THEN SOA_from_element([Value |-> <<encoded.val>>])
                         ELSE encoded
          IN  trip' = [soa |-> soa, encoded |-> encoded, decoded |-> decoded]
    /\ UNCHANGED <<pc, call, changes, op, sent, q, exchanges, response, ran, outcome>>

NextSOA == soa_round_trip

SpecSOA == Init /\ [][NextSOA]_vars
\* ================================================================ claims
\* the success set each facade operation declares (client.py:123, 237)
DeclaredOkStatus(name) == IF name = "create_hosted_zone" THEN {CREATED} ELSE {OK}

Delivered(name) == pc = "done" /\ call.name = name /\ exchanges = 1
Decodable ==
    /\ response.kind = "http"
    /\ response.status \in DeclaredOkStatus(call.name)
    /\ response.body.kind = "xml"
Ran(fn) == \E i \in 1..Len(ran) : ran[i] = fn

\* C1: a delivered response whose status is outside the operation's
\* declared success set ends the call in Route53Error; only the errback
\* ran, extract_result did not, and the caller receives no decoded value.
C1_ErrorStatusNeverDecoded ==
    (/\ pc = "done"
     /\ exchanges = 1
     /\ response.kind = "http"
     /\ response.status \notin DeclaredOkStatus(call.name))
    => /\ outcome.tag = "fail"
       /\ outcome.err = "Route53Error"
       /\ ran = <<"route53_error_wrapper">>
       /\ ~Ran("extract_result")

\* C1 witness: create_hosted_zone, which expects 201, was answered 400 with
\* a body that holds a decodable HostedZone.
C1_Witness ==
    /\ Delivered("create_hosted_zone")
    /\ response.kind = "http"
    /\ response.status = 400
    /\ response.body.doc = SampleDoc

\* C2: every facade call that was given ChangeRequests where it takes
\* changes, and that has ended, issued exactly one transport exchange.
C2_ExactlyOneExchange ==
    (/\ pc = "done"
     /\ \A i \in 1..Len(changes) : changes[i].result.t = "_ChangeRRSet")
    => exchanges = 1

\* C3: a success response to list_resource_record_sets that holds an rrset
\* whose Type is not registered ends the call in failure.
C3_UnknownTypeFails ==
    (/\ Delivered("list_resource_record_sets")
     /\ Decodable
     /\ \E i \in 1..Len(response.body.doc.ResourceRecordSets) :
           LET type == response.body.doc.ResourceRecordSets[i].Type
           IN  Len(type) = 1 /\ type[1] \notin {"SOA", "NS", "CNAME"})
    => outcome.tag = "fail"

\* the mapping C4 expects: one entry per Name among the rrsets, holding the
\* records of every rrset of that Name, each decoded by the class of the
\* Type of the rrset that encloses it
C4_Expected(rs) ==
    {[key |-> [text |-> rs[i].Name[1]],
      val |-> UNION {{from_element(rs[j].Type[1], rs[j].ResourceRecords[k]).val :
                         k \in 1..Len(rs[j].ResourceRecords)} :
                     j \in {j \in 1..Len(rs) : rs[j].Name = rs[i].Name}}] :
        i \in 1..Len(rs)}

\* C4: the mapping list_resource_record_sets returns holds, for every name,
\* exactly the records of the rrsets of that name, each decoded under the
\* Type of its own rrset, equal records being one member.
C4_MappingIsExact ==
    (Delivered("list_resource_record_sets") /\ IsOk(outcome))
    => outcome.val = C4_Expected(response.body.doc.ResourceRecordSets)

\* C4 witness: two rrsets of one name and different types, one record each
\* with the same Value text, returned as two records of two classes under
\* the one name.
C4_Witness ==
    /\ Delivered("list_resource_record_sets")
    /\ IsOk(outcome)
    /\ LET rs == response.body.doc.ResourceRecordSets
       IN  /\ Len(rs) = 2
           /\ rs[1].Name = rs[2].Name
           /\ rs[1].Type # rs[2].Type
           /\ Len(rs[1].ResourceRecords) = 1
           /\ rs[1].ResourceRecords = rs[2].ResourceRecords
    /\ \A e \in outcome.val : Cardinality(e.val) = 2

\* a filter value that is present: not None and not empty
C5_Present(v) == v.t # "None" /\ (v.t = "str" => Len(v.s) > 0)
\* ... and, for a number, not 0
C5_PresentAndNotZero(v) == C5_Present(v) /\ (v.t = "int" => v.n # 0)
C5_Text(v) == IF v.t = "int" THEN IntToText(v.n) ELSE v.s
C5_Filters(c) ==
    <<(<<"identifier", c.identifier>>), <<"maxitems", c.maxitems>>,
      <<"name", c.rrname>>, <<"type", c.type>>>>
C5_Query(c, Included(_)) ==
    LET all == C5_Filters(c)
        keep == SelectSeq(all, LAMBDA f : Included(f[2]))
    IN  [i \in 1..Len(keep) |-> <<keep[i][1], C5_Text(keep[i][2])>>]
C5_QueryIs(expected) ==
    /\ (pc = "assembled" /\ call.name = "list_resource_record_sets")
       => op.query = expected
    /\ (pc = "submitted" /\ call.name = "list_resource_record_sets")
       => sent.url_context.query = expected

\* C5 as stated: the query holds, in the order identifier, maxitems, name,
\* type, exactly the filters that are not None and not empty.
C5_QueryHoldsPresentFilters == C5_QueryIs(C5_Query(call, C5_Present))

\* C5 as amended: ... exactly the filters that are not None, not empty and
\* not 0.
C5_QueryHoldsTruthyFilters == C5_QueryIs(C5_Query(call, C5_PresentAndNotZero))

\* C5 witness: a request handed to the transport with identifier None,
\* maxitems 11, name empty and type given.
C5_Witness ==
    /\ pc = "submitted"
    /\ call.name = "list_resource_record_sets"
    /\ call.identifier = PyNone
    /\ call.maxitems = PyInt(11)
    /\ call.rrname = PyStr(<<>>)
    /\ call.type = PyStr(<<"x">>)
    /\ sent.url_context.query = <<(<<"maxitems", <<"1", "1">>>>), <<"type", <<"x">>>>>>

\* the Value text C6 and C7 expect of a record
C6_Value(rr) ==
    CASE rr.cls = "NS" -> idna(rr.nameserver.text)
      [] rr.cls = "CNAME" -> idna(rr.canonical_name.text)
      [] rr.cls = "SOA" ->
             idna(rr.mname.text) \o <<" ">> \o idna(rr.rname.text) \o <<" ">>
             \o IntToText(rr.serial) \o <<" ">> \o IntToText(rr.refresh) \o <<" ">>
             \o IntToText(rr.retry) \o <<" ">> \o IntToText(rr.expire) \o <<" ">>
             \o IntToText(rr.minimum)
C6_Change(c) ==
    [tag |-> "Change", Action |-> c.action, Name |-> idna(c.name.text),
     Type |-> c.type, TTL |-> <<"8", "6", "4", "0", "0">>,
     ResourceRecords |-> [j \in 1..Len(c.rrset) |-> [Value |-> C6_Value(c.rrset[j])]]]

\* C6: change_resource_record_sets, given ChangeRequests, builds a body with
\* one Change per request, in order, each with its Action, Name, Type, a TTL
\* of 86400 and one ResourceRecord/Value per record, in order.
C6_EveryChangeSerialized ==
    (/\ call.name = "change_resource_record_sets"
     /\ pc \in {"assembled", "done"}
     /\ exchanges = 0
     /\ \A i \in 1..Len(changes) : changes[i].result.t = "_ChangeRRSet")
    => /\ pc = "assembled"
       /\ op.body =
             <<to_xml([tag |-> "ChangeResourceRecordSetsRequest", xmlns |-> NS_URI,
                       ChangeBatch |->
                          [Changes |-> [i \in 1..Len(changes) |->
                                           C6_Change(changes[i].result)]]])>>

\* C7: to_string of an SOA succeeds with its seven fields, blank-separated,
\* and from_element of that text gives the SOA back.
C7_SOARoundTrip ==
    trip # NoTrip
    => /\ IsOk(trip.encoded)
       /\ trip.encoded.val = C6_Value(trip.soa)
       /\ IsOk(trip.decoded)
       /\ trip.decoded.val = trip.soa

\* the zones a hosted-zone operation was answered with
C8_Zones ==
    IF call.name = "create_hosted_zone"
    THEN response.body.doc.HostedZone
    ELSE response.body.doc.HostedZones
C8_Returned == IF call.name = "create_hosted_zone" THEN <<outcome.val>> ELSE outcome.val
C8_WellFormed(z) ==
    /\ Len(z.Id) = 1
    /\ IsOk(int(z.ResourceRecordSetCount[1]))
\* the Id without its leading /hostedzone/, if it has one
C8_StripLeading(id) ==
    IF Len(id) > 0 /\ id[1] = "/hostedzone/" THEN Tail(id) ELSE id
\* the Id without any /hostedzone/
C8_RemoveEvery(id) == SelectSeq(id, LAMBDA a : a # "/hostedzone/")
C8_ZonesAre(Identifier(_)) ==
    (/\ pc = "done"
     /\ exchanges = 1
     /\ call.name \in {"create_hosted_zone", "list_hosted_zones"}
     /\ Decodable
     /\ call.name = "create_hosted_zone" => Len(C8_Zones) = 1
     /\ \A i \in 1..Len(C8_Zones) : C8_WellFormed(C8_Zones[i]))
    => /\ IsOk(outcome)
       /\ Len(C8_Returned) = Len(C8_Zones)
       /\ \A i \in 1..Len(C8_Zones) :
             C8_Returned[i] =
                [name |-> C8_Zones[i].Name[1],
                 identifier |-> Identifier(C8_Zones[i].Id[1]),
                 rrset_count |-> DigitsValue(C8_Zones[i].ResourceRecordSetCount[1]),
                 reference |-> C8_Zones[i].CallerReference[1]]

\* C8 as stated: N HostedZone elements give N HostedZones in document
\* order, the identifier being the Id with its leading /hostedzone/
\* stripped and the rest unchanged.
C8_IdentifierStripsLeadingPrefix == C8_ZonesAre(C8_StripLeading)

\* C8 as amended: ... the identifier being the Id with every /hostedzone/
\* in it removed.
C8_IdentifierRemovesEveryPrefix == C8_ZonesAre(C8_RemoveEvery)

\* C8 witness: list_hosted_zones answered with two zones, the first with Id
\* /hostedzone/Z1, returned as two HostedZones, the first with identifier Z1.
C8_Witness ==
    /\ Delivered("list_hosted_zones")
    /\ IsOk(outcome)
    /\ Len(response.body.doc.HostedZones) = 2
    /\ response.body.doc.HostedZones[1].Id = <<(<<"/hostedzone/", "Z1">>)>>
    /\ response.body.doc.HostedZones[2].Id = <<(<<"Z1">>)>>
    /\ Len(outcome.val) = 2
    /\ outcome.val[1].identifier = <<"Z1">>

\* C9: no factory returns nothing: what each call of a factory returned is
\* a ChangeRequest.
C9_FactoriesReturnChangeRequests ==
    \A i \in 1..Len(changes) : changes[i].result.t = "_ChangeRRSet"

\* an rrset that list_resource_record_sets cannot decode
C10_RecordFails(type, e) ==
    \/ Len(e.Value) = 0
    \/ Len(e.Value[1]) = 0
    \/ /\ type = "SOA"
       /\ LET tk == split(e.Value[1])
          IN  \/ Len(tk) # 7
              \/ \E i \in 3..7 : \E j \in 1..Len(tk[i]) : ~IsDigit(tk[i][j])
C10_RRSetFails(rrset) ==
    \/ Len(rrset.Name) = 0
    \/ Len(rrset.Name[1]) = 0
    \/ Len(rrset.Type) = 0
    \/ /\ Len(rrset.ResourceRecords) > 0
       /\ \/ rrset.Type[1] \notin {"SOA", "NS", "CNAME"}
          \/ \E k \in 1..Len(rrset.ResourceRecords) :
                C10_RecordFails(rrset.Type[1], rrset.ResourceRecords[k])

\* C10: when an rrset of a success response fails to decode, wherever it
\* stands, list_resource_record_sets ends in failure and the caller
\* receives no mapping; a mapping it does receive has an entry for the
\* name of every rrset of the response.
C10_DecodeIsAllOrNothing ==
    (Delivered("list_resource_record_sets") /\ Decodable)
    => LET rs == response.body.doc.ResourceRecordSets
       IN  /\ (\E i \in 1..Len(rs) : C10_RRSetFails(rs[i]))
              => (outcome.tag = "fail" /\ "val" \notin DOMAIN outcome)
           /\ IsOk(outcome)
              => \A i \in 1..Len(rs) :
                    \E e \in outcome.val : e.key.text = rs[i].Name[1]

\* C10 witness: the first rrset decoded a record, the second cannot be
\* decoded, and the call ended in failure.
C10_Witness ==
    /\ Delivered("list_resource_record_sets")
    /\ Decodable
    /\ LET rs == response.body.doc.ResourceRecordSets
       IN  /\ Len(rs) = 2
           /\ ~C10_RRSetFails(rs[1])
           /\ Len(rs[1].ResourceRecords) = 1
           /\ Len(rs[2].ResourceRecords) = 1
           /\ C10_RRSetFails(rs[2])
    /\ outcome.tag = "fail"
====
